---- MODULE Spec2Model ----
(***************************************************************************)
(* node-disk-stat (src/index.js): the parser of /proc/diskstats, the unit  *)
(* conversion, and the two sampling calls usageRead / usageWrite.          *)
(*                                                                         *)
(* Three specifications share the module:                                  *)
(*   Spec         the sampling calls against a changing statistics file    *)
(*   SpecBytesTo  _bytesTo applied to byte values and unit strings         *)
(*   SpecParse    _parseProcDiskstats / raw applied to file contents       *)
(***************************************************************************)
EXTENDS Integers, Sequences, FiniteSets, TLC

VARIABLES
    (* the statistics file, as the kernel publishes it *)
    present,    \* devices the kernel lists, in file order
    sectors,    \* device -> [rd, wr]: sectors read / written so far
    readable,   \* whether fs.readFileSync('/proc/diskstats') succeeds
    now,        \* the clock, in milliseconds
    (* the caller's side *)
    heap,       \* options object id -> its fields (NoObject before creation)
    edits,      \* assignments the caller has made to objects after a call
    (* the calls *)
    calls,      \* call id -> the call's closure, promise and history
    (* SpecBytesTo *)
    conv,
    (* SpecParse *)
    content,
    parsed

kernelVars == <<present, sectors, readable, now>>
callVars == <<heap, edits, calls>>
pureVars == <<conv, content, parsed>>
vars == <<present, sectors, readable, now, heap, edits, calls, conv, content, parsed>>

----------------------------------------------------------------------------
(* Bounds of the model *)

MaxCalls == 2
MaxSectors == 1
TickMs == 500
MaxTimeMs == 1000
MaxEdits == 1
MaxFaults == 1
MaxLines == 3

----------------------------------------------------------------------------
(* JavaScript values.  A number is n * 2^x / d with n and d odd (or n = 0, *)
(* d = 1, x = 0), d > 0 and gcd(n, d) = 1: a canonical form, so that equal *)
(* numbers are equal records.  Every division the program does by a power *)
(* of two only moves x, as it only moves the exponent of a double.         *)

Undefined == [t |-> "undefined"]
NaN == [t |-> "NaN"]
Infinity(neg) == [t |-> "Infinity", neg |-> neg]
JsString(s) == [t |-> "string", s |-> s]

Abs(i) == IF i < 0 THEN -i ELSE i

RECURSIVE GCD(_, _)
GCD(a, b) == IF b = 0 THEN a ELSE GCD(b, a % b)

RECURSIVE TwoAdic(_)
TwoAdic(i) == IF i = 0 \/ i % 2 # 0 THEN 0 ELSE 1 + TwoAdic(i \div 2)

RECURSIVE Pow2(_)
Pow2(k) == IF k = 0 THEN 1 ELSE 2 * Pow2(k - 1)

Zero == [t |-> "number", n |-> 0, d |-> 1, x |-> 0]

(* the number n * 2^x / d, for any integers n, d with d > 0 *)
Number(n, d, x) ==
    IF n = 0 THEN Zero
    ELSE LET tn == TwoAdic(Abs(n))
             td == TwoAdic(d)
             n1 == n \div Pow2(tn)
             d1 == d \div Pow2(td)
             g == GCD(Abs(n1), d1)
         IN  [t |-> "number", n |-> n1 \div g, d |-> d1 \div g, x |-> x + tn - td]

FromInt(i) == Number(i, 1, 0)

IsNumber(v) == v.t = "number"

Min(a, b) == IF a < b THEN a ELSE b

Sign(i) == IF i < 0 THEN -1 ELSE 1

(* a + b, a - b, a * b, a / b on numbers, with IEEE's NaN and Infinity *)
JsAdd(a, b) ==
    IF IsNumber(a) /\ IsNumber(b)
    THEN LET m == Min(a.x, b.x)
         IN  Number(a.n * Pow2(a.x - m) * b.d + b.n * Pow2(b.x - m) * a.d, a.d * b.d, m)
    ELSE IF a.t = "Infinity" /\ (IsNumber(b) \/ b = a) THEN a
    ELSE IF b.t = "Infinity" /\ IsNumber(a) THEN b
    ELSE NaN

JsNeg(a) ==
    IF IsNumber(a) THEN Number(-a.n, a.d, a.x)
    ELSE IF a.t = "Infinity" THEN Infinity(~a.neg)
    ELSE NaN

JsSub(a, b) == JsAdd(a, JsNeg(b))

JsMul(a, b) ==
    IF IsNumber(a) /\ IsNumber(b) THEN Number(a.n * b.n, a.d * b.d, a.x + b.x)
    ELSE IF a.t = "NaN" \/ b.t = "NaN" THEN NaN
    ELSE IF a = Zero \/ b = Zero THEN NaN
    ELSE LET na == IF IsNumber(a) THEN a.n < 0 ELSE a.neg
             nb == IF IsNumber(b) THEN b.n < 0 ELSE b.neg
         IN  Infinity(na # nb)

JsDiv(a, b) ==
    IF IsNumber(a) /\ IsNumber(b)
    THEN IF b = Zero
         THEN IF a = Zero THEN NaN ELSE Infinity(a.n < 0)
         ELSE Number(a.n * b.d * Sign(b.n), a.d * Abs(b.n), a.x - b.x)
    ELSE IF a.t = "Infinity" /\ IsNumber(b) THEN Infinity(a.neg # (b.n < 0))
    ELSE IF IsNumber(a) /\ b.t = "Infinity" THEN Zero
    ELSE NaN

(* ToBoolean: what `||` tests *)
Falsy(v) == v = Undefined \/ v = NaN \/ v = Zero \/ v = JsString("")

(* a || b *)
JsOr(a, b) == IF Falsy(a) THEN b ELSE a

DigitChars == <<"0", "1", "2", "3", "4", "5", "6", "7", "8", "9">>

(* a counter as the kernel prints it *)
RECURSIVE Decimal(_)
Decimal(i) ==
    IF i < 10 THEN DigitChars[i + 1]
    ELSE Decimal(i \div 10) \o DigitChars[(i % 10) + 1]

(* the counters the statistics file of the model can hold *)
CounterRange == 0..MaxSectors

(* ToNumber, as `-` and `*` apply it to their operands *)
ToNumber(v) ==
    IF v.t = "string"
    THEN IF v.s = "" THEN Zero
         ELSE IF \E i \in CounterRange : Decimal(i) = v.s
              THEN FromInt(CHOOSE i \in CounterRange : Decimal(i) = v.s)
              ELSE NaN
    ELSE IF v.t = "undefined" THEN NaN
    ELSE v

(* ToPropertyKey: obj[v] *)
PropertyKey(v) ==
    IF v.t = "string" THEN v.s
    ELSE IF v.t = "undefined" THEN "undefined"
    ELSE "NaN"

----------------------------------------------------------------------------
(* _bytesTo *)

KiB == 1024
MiB == 1024 * KiB
GiB == 1024 * MiB

_bytesTo(bytes, units) ==
    LET b1 == JsDiv(bytes, FromInt(KiB))   \* KiB: bytes /= KiB
        b2 == JsDiv(b1, FromInt(MiB))      \* MiB: bytes /= MiB
        b3 == JsDiv(b2, FromInt(GiB))      \* GiB: bytes /= GiB
        key == PropertyKey(units)
        converted ==
            CASE key = "bytes" -> bytes
              [] key = "KiB" -> b1
              [] key = "MiB" -> b2
              [] key = "GiB" -> b3
              [] OTHER -> Undefined
    IN  JsOr(converted, Undefined)         \* console.log(...) returns undefined

----------------------------------------------------------------------------
(* Text.  A text is a sequence of pieces: " " (a whitespace character),    *)
(* "\n" (a line break), or a run of non-whitespace characters.  Adjacent   *)
(* runs join, as adjacent characters do.                                   *)

IsWs(c) == c = " " \/ c = "\n"

(* String.prototype.trim *)
RECURSIVE TrimStart(_)
TrimStart(s) ==
    IF s # <<>> /\ IsWs(Head(s)) THEN TrimStart(Tail(s)) ELSE s

RECURSIVE TrimEnd(_)
TrimEnd(s) ==
    IF s # <<>> /\ IsWs(s[Len(s)]) THEN TrimEnd(SubSeq(s, 1, Len(s) - 1)) ELSE s

Trim(s) == TrimEnd(TrimStart(s))

(* String.prototype.split('\n'): a sequence of texts, never empty *)
RECURSIVE SplitLines(_)
SplitLines(s) ==
    IF \E i \in 1..Len(s) : s[i] = "\n"
    THEN LET i == CHOOSE j \in 1..Len(s) :
                      s[j] = "\n" /\ \A k \in 1..(j - 1) : s[k] # "\n"
         IN  <<SubSeq(s, 1, i - 1)>> \o SplitLines(SubSeq(s, i + 1, Len(s)))
    ELSE <<s>>

(* String.prototype.split(/\s+/): a sequence of strings, never empty; the  *)
(* empty text splits into one empty string                                 *)
RECURSIVE SplitWsFrom(_, _)
SplitWsFrom(s, cur) ==
    IF s = <<>> THEN <<cur>>
    ELSE IF IsWs(Head(s)) THEN <<cur>> \o SplitWsFrom(TrimStart(s), "")
    ELSE SplitWsFrom(Tail(s), cur \o Head(s))

SplitWs(s) == SplitWsFrom(s, "")

(* values[i], i counted from 0: undefined past the end *)
At(values, i) == IF i + 1 <= Len(values) THEN JsString(values[i + 1]) ELSE Undefined

FieldNames ==
    {"deviceNumber", "deviceNumberMinor", "readsCompleted", "readsMerged",
     "sectorsRead", "msReading", "writesCompleted", "writesMerged",
     "sectorsWritten", "msWriting", "iosPending", "msIo", "msWeightedIo"}

(* the object literal of lines 56-70 *)
DeviceRecord(values) ==
    [deviceNumber |-> At(values, 0),
     deviceNumberMinor |-> At(values, 1),
     readsCompleted |-> At(values, 3),
     readsMerged |-> At(values, 4),
     sectorsRead |-> At(values, 5),
     msReading |-> At(values, 6),
     writesCompleted |-> At(values, 7),
     writesMerged |-> At(values, 8),
     sectorsWritten |-> At(values, 9),
     msWriting |-> At(values, 10),
     iosPending |-> At(values, 11),
     msIo |-> At(values, 12),
     msWeightedIo |-> At(values, 13)]

EmptyObject == [k \in {} |-> Undefined]

(* data[key] = value *)
SetProperty(data, key, value) ==
    [k \in DOMAIN data \cup {key} |-> IF k = key THEN value ELSE data[k]]

(* data[key] *)
GetProperty(data, key) == IF key \in DOMAIN data THEN data[key] ELSE Undefined

(* lines.forEach(...) *)
RECURSIVE ForEachLine(_, _)
ForEachLine(lines, data) ==
    IF lines = <<>> THEN data
    ELSE LET values == SplitWs(Trim(Head(lines)))
         IN  ForEachLine(Tail(lines),
                         SetProperty(data, PropertyKey(At(values, 2)), DeviceRecord(values)))

(* _parseProcDiskstats, given what fs.readFileSync returned *)
_parseProcDiskstats(diskstats) == ForEachLine(SplitLines(Trim(diskstats)), EmptyObject)

(* raw *)
raw(diskstats) == _parseProcDiskstats(diskstats)

----------------------------------------------------------------------------
(* The statistics file: one line per device, 14 fields, as the kernel      *)
(* prints it (right-aligned major and minor numbers, a line break after    *)
(* every line).                                                            *)

Devices == <<"sda", "sdb">>

KernelLine(major, minor, name, counters) ==
    <<" ", " ", " ", Decimal(major), " ", " ", Decimal(minor), " ", name>>
        \o LET RECURSIVE Fields(_)
               Fields(i) == IF i > Len(counters) THEN <<>>
                            ELSE <<" ", Decimal(counters[i])>> \o Fields(i + 1)
           IN  Fields(1)
        \o <<"\n">>

(* a disk's line: of its 11 counters the model keeps sectors read (the     *)
(* 3rd) and sectors written (the 7th)                                      *)
DiskstatsLine(minor, name, rd, wr) ==
    KernelLine(8, minor, name, <<0, 0, rd, 0, 0, 0, wr, 0, 0, 0, 0>>)

RECURSIVE DiskstatsFrom(_, _, _)
DiskstatsFrom(i, devs, counters) ==
    IF i > Len(Devices) THEN <<>>
    ELSE (IF Devices[i] \in devs
          THEN DiskstatsLine(i - 1, Devices[i], counters[Devices[i]].rd, counters[Devices[i]].wr)
          ELSE <<>>)
         \o DiskstatsFrom(i + 1, devs, counters)

Diskstats(devs, counters) == DiskstatsFrom(1, devs, counters)

----------------------------------------------------------------------------
(* Options objects.  A field the caller did not set reads as undefined.    *)

Opts(device, sectorSizeBytes, sampleMs, units) ==
    [device |-> device, sectorSizeBytes |-> sectorSizeBytes,
     sampleMs |-> sampleMs, units |-> units]

(* the object literals callers pass *)
OptsChoices ==
    { Opts(Undefined, Undefined, Undefined, Undefined),
      Opts(JsString("sdb"), FromInt(4096), FromInt(500), JsString("KiB")),
      Opts(JsString(""), Zero, Zero, JsString("TiB")) }

(* the assignments callers make to an object they passed before *)
AssignChoices ==
    { <<"device", JsString("sdb")>>, <<"units", JsString("MiB")>>,
      <<"sectorSizeBytes", FromInt(4096)>> }

MsPerSecond == 1000
NanosPerMs == 1000000
NanosPerSecond == 1000000000

DefaultSectorSizeBytes == 512
DefaultSampleMs == 1000
DefaultDevice == "sda"
DefaultUnits == "bytes"

(* lines 100-103 and 126-129: the defaults, assigned to the caller's object *)
Defaults(opts) ==
    [sectorSizeBytes |-> JsOr(opts.sectorSizeBytes, FromInt(DefaultSectorSizeBytes)),
     sampleMs |-> JsOr(opts.sampleMs, FromInt(DefaultSampleMs)),
     device |-> JsOr(opts.device, JsString(DefaultDevice)),
     units |-> JsOr(opts.units, JsString(DefaultUnits))]

----------------------------------------------------------------------------
(* The calls *)

Calls == 1..MaxCalls

NoCall ==
    [pc |-> "idle", kind |-> "none", opts |-> 0, passed |-> Undefined,
     entry |-> Undefined, used |-> Undefined, delta0 |-> Undefined,
     delta1 |-> Undefined, time |-> 0, due |-> 0, diffMs |-> 0,
     failedRead |-> 0, result |-> Undefined, log |-> <<>>]

(* the counter a call samples *)
CounterField(kind) == IF kind = "read" THEN "sectorsRead" ELSE "sectorsWritten"

(* fs.readFileSync('/proc/diskstats') throws *)
ReadFileThrows == ~readable

(* _parseProcDiskstats() on the file as it is now *)
Snapshot == _parseProcDiskstats(Diskstats(present, sectors))

(* whether _parseProcDiskstats()[device].<field> throws: the file cannot   *)
(* be read, or the snapshot has no such key and the property is read off   *)
(* undefined                                                                *)
ReadThrows(snapshot, device) ==
    ReadFileThrows \/ GetProperty(snapshot, PropertyKey(device)) = Undefined

ReadCounter(snapshot, device, kind) ==
    GetProperty(snapshot, PropertyKey(device))[CounterField(kind)]

(* the whole milliseconds setTimeout waits for a number *)
TimeoutMs(ms) ==
    IF ~IsNumber(ms) THEN 1
    ELSE IF ms.x >= 0 THEN (ms.n * Pow2(ms.x)) \div ms.d
    ELSE ms.n \div (ms.d * Pow2(-ms.x))

(* delay(ms) started at time t: when the timer expires *)
DelayEnd(t, ms) == t + TimeoutMs(ms)

(* the executor goes on without awaiting the timer *)
TimerDueAtOnce(c) == TRUE

(* await delay(opts.sampleMs): the timer has expired *)
TimerDue(c) == now >= calls[c].due

(* process.hrtime(time), as diff[0] + diff[1] * 1e-9 *)
DiffSeconds(diffMs) ==
    JsAdd(FromInt(diffMs \div MsPerSecond),
          JsMul(FromInt((diffMs % MsPerSecond) * NanosPerMs), Number(1, NanosPerSecond, 0)))

(* lines 117-119 and 142-144 *)
Rate(delta0, delta1, opts, diffSeconds) ==
    LET totalBytes == JsMul(JsSub(ToNumber(delta1), ToNumber(delta0)),
                            ToNumber(opts.sectorSizeBytes))
        totalBytesPerSecond == JsDiv(totalBytes, JsMul(diffSeconds, diffSeconds))
    IN  _bytesTo(totalBytesPerSecond, opts.units)

(* the objects a caller can pass: one it has passed before, or a new one   *)
(* (a literal), which then lives at the end of the heap                    *)
Passable ==
    {<<heap, o>> : o \in 1..Len(heap)}
        \cup (IF Len(heap) < MaxCalls
              THEN {<<Append(heap, fields), Len(heap) + 1>> : fields \in OptsChoices}
              ELSE {})

(* the caller assigns a field of an object whose call is in its sampling   *)
(* window                                                                   *)
CallerAssign(o, field, value) ==
    /\ edits < MaxEdits
    /\ \E c \in Calls : calls[c].pc = "delay" /\ calls[c].opts = o
    /\ heap[o][field] # value
    /\ heap' = [heap EXCEPT ![o][field] = value]
    /\ edits' = edits + 1
    /\ UNCHANGED <<calls, kernelVars, pureVars>>

(* usageRead(opts) / usageWrite(opts), up to the await: the defaults, the  *)
(* first snapshot, hrtime, and the executor's start of the delay.  before  *)
(* is the heap as the caller prepared it, o the object passed.              *)
usage(c, kind, before, o) ==
    /\ calls[c].pc = "idle"
    /\ \A b \in 1..(c - 1) : calls[b].pc # "idle"
    /\ LET opts == Defaults(before[o])
           snapshot == Snapshot
           base == [NoCall EXCEPT !.kind = kind, !.opts = o, !.passed = before[o],
                                  !.entry = opts, !.time = now]
       IN  /\ heap' = [before EXCEPT ![o] = opts]
           /\ IF ReadThrows(snapshot, opts.device)
              THEN calls' = [calls EXCEPT ![c] =
                       [base EXCEPT !.pc = "threw", !.failedRead = 1, !.log = <<"read">>]]
              ELSE calls' = [calls EXCEPT ![c] =
                       [base EXCEPT !.pc = "delay",
                                    !.delta0 = ReadCounter(snapshot, opts.device, kind),
                                    !.due = DelayEnd(now, opts.sampleMs),
                                    !.log = <<"read", "suspend">>]]
    /\ UNCHANGED <<edits, kernelVars, pureVars>>

usageRead(c, before, o) == usage(c, "read", before, o)

usageWrite(c, before, o) == usage(c, "write", before, o)

(* the executor after the await: the second snapshot, the rate, resolve.   *)
(* An exception here rejects the promise of the async executor, which      *)
(* nothing observes: the promise the caller holds stays pending.           *)
AfterDelay(c) ==
    /\ calls[c].pc = "delay"
    /\ TimerDue(c)
    /\ LET opts == heap[calls[c].opts]
           snapshot == Snapshot
           diffMs == now - calls[c].time
           resumed == [calls[c] EXCEPT !.used = opts, !.diffMs = diffMs]
       IN  IF ReadThrows(snapshot, opts.device)
           THEN calls' = [calls EXCEPT ![c] =
                    [resumed EXCEPT !.pc = "hung", !.failedRead = 2,
                                    !.log = @ \o <<"resume", "read">>]]
           ELSE LET delta1 == ReadCounter(snapshot, opts.device, calls[c].kind)
                IN  calls' = [calls EXCEPT ![c] =
                        [resumed EXCEPT
                            !.pc = "resolved",
                            !.delta1 = delta1,
                            !.result = Rate(calls[c].delta0, delta1, opts, DiffSeconds(diffMs)),
                            !.log = @ \o <<"resume", "read", "compute", "convert", "resolve">>]]
    /\ UNCHANGED <<heap, edits, kernelVars, pureVars>>

DeviceSet == {Devices[i] : i \in 1..Len(Devices)}

(* sectors accounted so far, over all devices *)
TotalIo ==
    LET RECURSIVE Sum(_)
        Sum(i) == IF i = 0 THEN 0
                  ELSE sectors[Devices[i]].rd + sectors[Devices[i]].wr + Sum(i - 1)
    IN  Sum(Len(Devices))

(* devices detached and permissions lost so far *)
Faults == (Len(Devices) - Cardinality(present)) + (IF readable THEN 0 ELSE 1)

(* the kernel accounts a sector read or written *)
Io(d, f) ==
    /\ d \in present
    /\ TotalIo < MaxSectors
    /\ sectors' = [sectors EXCEPT ![d][f] = @ + 1]
    /\ UNCHANGED <<present, readable, now, callVars, pureVars>>

(* a device is detached: the kernel drops its line *)
Unplug(d) ==
    /\ d \in present
    /\ Faults < MaxFaults
    /\ present' = present \ {d}
    /\ UNCHANGED <<sectors, readable, now, callVars, pureVars>>

(* the file stops being readable *)
Revoke ==
    /\ readable
    /\ Faults < MaxFaults
    /\ readable' = FALSE
    /\ UNCHANGED <<present, sectors, now, callVars, pureVars>>

Tick ==
    /\ now < MaxTimeMs
    /\ now' = now + TickMs
    /\ UNCHANGED <<present, sectors, readable, callVars, pureVars>>

InitKernel ==
    /\ present = DeviceSet
    /\ sectors = [d \in DeviceSet |-> [rd |-> 0, wr |-> 0]]
    /\ readable = TRUE
    /\ now = 0

InitCalls ==
    /\ heap = <<>>
    /\ edits = 0
    /\ calls = [c \in Calls |-> NoCall]

InitPure ==
    /\ conv = [pc |-> "off"]
    /\ content = <<>>
    /\ parsed = [pc |-> "off"]

Init == InitKernel /\ InitCalls /\ InitPure

Next ==
    \/ \E o \in 1..Len(heap), a \in AssignChoices : CallerAssign(o, a[1], a[2])
    \/ \E c \in Calls, p \in Passable : usageRead(c, p[1], p[2])
    \/ \E c \in Calls, p \in Passable : usageWrite(c, p[1], p[2])
    \/ \E c \in Calls : AfterDelay(c)
    \/ \E d \in DeviceSet, f \in {"rd", "wr"} : Io(d, f)
    \/ \E d \in DeviceSet : Unplug(d)
    \/ Revoke
    \/ Tick

Spec == Init /\ [][Next]_vars

----------------------------------------------------------------------------
(* SpecBytesTo: _bytesTo on byte values m * 2^k and unit strings *)

MaxMantissa == 3

BytesInputs == {Number(m, 1, k) : m \in 0..MaxMantissa, k \in {0, 10, 20, 30}}

UnitsInputs ==
    {JsString(u) : u \in {"bytes", "KiB", "MiB", "GiB", "TiB", ""}} \cup {Undefined}

InitBytesTo ==
    /\ InitKernel /\ InitCalls
    /\ content = <<>>
    /\ parsed = [pc |-> "off"]
    /\ conv \in {[pc |-> "call", bytes |-> b, units |-> u, out |-> Undefined] :
                    b \in BytesInputs, u \in UnitsInputs}

BytesToCall ==
    /\ conv.pc = "call"
    /\ conv' = [conv EXCEPT !.pc = "returned", !.out = _bytesTo(conv.bytes, conv.units)]
    /\ UNCHANGED <<kernelVars, callVars, content, parsed>>

SpecBytesTo == InitBytesTo /\ [][BytesToCall]_vars

----------------------------------------------------------------------------
(* SpecParse: raw() on file contents of up to MaxLines lines *)

(* a 7-field line, as older kernels print for partitions *)
ShortLine == <<" ", " ", " ", "8", " ", " ", "1", " ", "sda1",
               " ", "3", " ", "4", " ", "5", " ", "6", "\n">>

LineChoices ==
    { KernelLine(8, 0, "sda", <<1, 2, 3, 4, 5, 6, 7, 8, 9, 10, 11>>),
      KernelLine(8, 16, "sdb", <<21, 22, 23, 24, 25, 26, 27, 28, 29, 30, 31>>),
      ShortLine,
      <<"\n">>,
      <<" ", "\n">> }

RECURSIVE Concat(_)
Concat(texts) == IF texts = <<>> THEN <<>> ELSE Head(texts) \o Concat(Tail(texts))

(* the file with and without the line break after its last line *)
FileContents ==
    LET files == UNION {{Concat(ls) : ls \in [1..n -> LineChoices]} : n \in 0..MaxLines}
    IN  files \cup {SubSeq(f, 1, Len(f) - 1) : f \in files \ {<<>>}}

InitParse ==
    /\ InitKernel /\ InitCalls
    /\ conv = [pc |-> "off"]
    /\ content \in FileContents
    /\ parsed = [pc |-> "call"]

RawCall ==
    /\ parsed.pc = "call"
    /\ parsed' = [pc |-> "returned", data |-> raw(content)]
    /\ UNCHANGED <<kernelVars, callVars, conv, content>>

SpecParse == InitParse /\ [][RawCall]_vars

----------------------------------------------------------------------------
(* Properties *)

(* how a call can end for its caller *)
CallerSeesFailure(c) == calls[c].pc \in {"threw", "rejected"}

Settled(c) == calls[c].pc \in {"resolved", "rejected", "threw"}

(* the executor's code after the await has run *)
Resumed(c) == calls[c].pc \notin {"idle", "delay", "threw"}

ValidUnits == {"bytes", "KiB", "MiB", "GiB"}

(* the counter a snapshot string stands for *)
CounterValue(v) == CHOOSE i \in CounterRange : Decimal(i) = v.s

(* C1: a failure at either snapshot read (device absent from the snapshot, *)
(* or the file unreadable) reaches the caller as the failure of the call,  *)
(* at the second read as at the first, and the call yields no rate.        *)
C1_SnapshotFailureReachesCaller ==
    \A c \in Calls :
        calls[c].failedRead # 0 =>
            CallerSeesFailure(c) /\ calls[c].result = Undefined

(* C2: once the sampling delay has elapsed and the call has resumed, its   *)
(* promise is resolved or failed: it is never left pending.                *)
C2_CallSettles ==
    \A c \in Calls : Resumed(c) => Settled(c)

(* C3: with the counter at R0 in the first snapshot and R1 >= R0 in the    *)
(* second, one second elapsed and units "bytes", the call resolves with    *)
(* the number (R1 - R0) * sectorSizeBytes, the number 0 when R1 = R0.      *)
C3_RateProportional ==
    \A c \in Calls :
        ( /\ calls[c].pc = "resolved"
          /\ calls[c].used = calls[c].entry
          /\ calls[c].entry.units = JsString("bytes")
          /\ calls[c].diffMs = MsPerSecond
          /\ CounterValue(calls[c].delta1) >= CounterValue(calls[c].delta0) )
        => calls[c].result =
               JsMul(FromInt(CounterValue(calls[c].delta1) - CounterValue(calls[c].delta0)),
                     calls[c].entry.sectorSizeBytes)

(* each unit computed from the original byte value *)
IndependentConversion(bytes, unit) ==
    CASE unit = "bytes" -> bytes
      [] unit = "KiB" -> JsDiv(bytes, FromInt(KiB))
      [] unit = "MiB" -> JsDiv(bytes, FromInt(MiB))
      [] unit = "GiB" -> JsDiv(bytes, FromInt(GiB))

(* C4: every unit is converted from the original byte value: "bytes"       *)
(* returns v, "KiB" v / 1024, "MiB" v / 1024^2, "GiB" v / 1024^3.  Stated  *)
(* of the values v # 0: the value 0 is the case of C3.                     *)
C4_UnitsIndependent ==
    ( /\ conv.pc = "returned"
      /\ conv.bytes # Zero
      /\ PropertyKey(conv.units) \in ValidUnits )
    => conv.out = IndependentConversion(conv.bytes, PropertyKey(conv.units))

(* C5: with a units value that is none of "bytes", "KiB", "MiB", "GiB"     *)
(* the call fails; it never resolves (with undefined or anything else).    *)
C5_UnknownUnitsFail ==
    \A c \in Calls :
        ( /\ Resumed(c)
          /\ PropertyKey(calls[c].used.units) \notin ValidUnits )
        => calls[c].pc # "resolved"

(* the lines of a file content, and the fields of a line *)
ContentLines(text) == SplitLines(text)

Words(line) == SelectSeq(line, LAMBDA piece : ~IsWs(piece))

DeviceLines(text) ==
    {i \in 1..Len(ContentLines(text)) : Words(ContentLines(text)[i]) # <<>>}

(* every non-empty line has the 14 fields, and no two name the same device *)
WellFormedContent(text) ==
    LET lines == ContentLines(text)
    IN  /\ \A i \in DeviceLines(text) : Len(Words(lines[i])) = 14
        /\ \A i, j \in DeviceLines(text) :
               Words(lines[i])[3] = Words(lines[j])[3] => i = j

(* the record the 14 fields of a line map to, by position *)
ExpectedRecord(w) ==
    [deviceNumber |-> JsString(w[1]), deviceNumberMinor |-> JsString(w[2]),
     readsCompleted |-> JsString(w[4]), readsMerged |-> JsString(w[5]),
     sectorsRead |-> JsString(w[6]), msReading |-> JsString(w[7]),
     writesCompleted |-> JsString(w[8]), writesMerged |-> JsString(w[9]),
     sectorsWritten |-> JsString(w[10]), msWriting |-> JsString(w[11]),
     iosPending |-> JsString(w[12]), msIo |-> JsString(w[13]),
     msWeightedIo |-> JsString(w[14])]

(* C6: for a content whose non-empty lines are N well-formed lines with    *)
(* distinct device names (N >= 0, blank lines allowed), raw() returns      *)
(* exactly N entries, keyed by the 3rd field, the other fields mapped by   *)
(* position, and no other key.                                             *)
C6_ParseWellFormed ==
    ( /\ parsed.pc = "returned"
      /\ WellFormedContent(content) )
    => LET lines == ContentLines(content)
       IN  /\ DOMAIN parsed.data = {Words(lines[i])[3] : i \in DeviceLines(content)}
           /\ Cardinality(DOMAIN parsed.data) = Cardinality(DeviceLines(content))
           /\ \A i \in DeviceLines(content) :
                  parsed.data[Words(lines[i])[3]] = ExpectedRecord(Words(lines[i]))

(* C7: a snapshot never holds a record with an undefined field: a line of  *)
(* fewer than 14 fields is skipped or fails the read.  Stated of the files *)
(* that list a device: the file without one is a case of C6.               *)
C7_NoUndefinedField ==
    (parsed.pc = "returned" /\ DeviceLines(content) # {}) =>
        \A k \in DOMAIN parsed.data : \A f \in FieldNames : parsed.data[k][f] # Undefined

StepOrder == <<"read", "suspend", "resume", "read", "compute", "convert", "resolve">>

IsPrefix(s, t) == Len(s) <= Len(t) /\ s = SubSeq(t, 1, Len(s))

Count(s, e) == Cardinality({i \in 1..Len(s) : s[i] = e})

(* the call has returned to its caller and waits for nothing *)
Over(c) == calls[c].pc \notin {"idle", "delay"}

(* C8, as stated: in every call the steps occur in the order first read,   *)
(* the one suspension, second read, compute, convert, resolve, and exactly *)
(* two snapshots are read per call.                                        *)
C8_TwoReadsPerCall ==
    \A c \in Calls :
        /\ IsPrefix(calls[c].log, StepOrder)
        /\ Over(c) => Count(calls[c].log, "read") = 2

(* C8, amended: the steps of a call whose first read succeeds occur in the *)
(* order first read, the one suspension of sampleMs, second read, and, if  *)
(* that read succeeds, compute, convert, resolve; once resumed such a call *)
(* has read exactly two snapshots; a call whose first read fails has read  *)
(* that one and never suspends; the promise is not resolved before the     *)
(* delay has completed; a call waits only in the delay.                    *)
C8_StepOrder ==
    \A c \in Calls :
        /\ IsPrefix(calls[c].log, StepOrder)
        /\ calls[c].pc = "idle" <=> calls[c].log = <<>>
        /\ calls[c].pc = "threw" <=> calls[c].log = <<"read">>
        /\ calls[c].pc = "delay" <=> calls[c].log = <<"read", "suspend">>
        /\ calls[c].pc = "resolved" <=> calls[c].log = StepOrder
        /\ Resumed(c) =>
               /\ Count(calls[c].log, "read") = 2
               /\ Count(calls[c].log, "suspend") = 1
               /\ calls[c].due = DelayEnd(calls[c].time, calls[c].entry.sampleMs)
               /\ calls[c].time + calls[c].diffMs >= calls[c].due

C8_Witness ==
    /\ \E c \in Calls :
           /\ calls[c].pc = "resolved"
           /\ calls[c].log = StepOrder
           /\ calls[c].diffMs >= TimeoutMs(calls[c].entry.sampleMs)
    /\ \E c \in Calls : calls[c].pc = "threw" /\ Count(calls[c].log, "read") = 1

(* C9: the device looked up in the second snapshot, the sector size and    *)
(* the units used after the delay are those of the call's entry, whatever  *)
(* other calls or the caller did to the options object in the window.      *)
C9_ConfigResolvedAtEntry ==
    \A c \in Calls :
        Resumed(c) =>
            /\ calls[c].used.device = calls[c].entry.device
            /\ calls[c].used.sectorSizeBytes = calls[c].entry.sectorSizeBytes
            /\ calls[c].used.units = calls[c].entry.units

(* C10: a call leaves the caller's options object as it was passed: no     *)
(* field added, every field the caller set (0 and "" included) unchanged.  *)
C10_OptsUnchanged ==
    \A c \in Calls :
        (calls[c].pc # "idle" /\ edits = 0) =>
            heap[calls[c].opts] = calls[c].passed

====
